---- MODULE Spec2Model ----
(***************************************************************************)
(* Trade-candidate search and fairness evaluation of the fantasy trade     *)
(* generator (src/main.py, lines 99-270, and the consolidation filter of   *)
(* tab 3, lines 520-524).                                                  *)
(*                                                                         *)
(* The search routines are pure functions of their arguments.  The state   *)
(* holds the league data, the arguments of one call and what the call      *)
(* returned; Init draws the league data from bounded sets and each action  *)
(* applies one routine to it.                                              *)
(*                                                                         *)
(* Player identifiers are opaque keys; they are modelled as the numbers    *)
(* 1..N.  A roster is a sequence of distinct identifiers and no player is  *)
(* on two rosters (league data).  Valuations are non-negative integers     *)
(* (FantasyCalc values); a player may be absent from the valuation table.  *)
(* The display-name lists 'you_give' / 'you_receive' of a trade record are *)
(* labels computed from all_players and are left out of the records; every *)
(* other key of the dict is kept under the source's name.                  *)
(***************************************************************************)
EXTENDS Integers, Sequences, FiniteSets, TLC

VARIABLES
    my_roster,          \* sequence of player ids
    opponent_roster,    \* sequence of player ids
    all_rosters,        \* sequence of [roster_id, players]
    player_values,      \* function: valued player id -> value
    max_players,        \* argument of the target / improvement / buy-low calls
    target_player_id,   \* argument of generate_target_player_trades
    selected_give,      \* argument of generate_custom_trades
    selected_receive,   \* argument of generate_custom_trades
    consolidation_type, \* tab 3 selectbox: "All", "2-for-1", "3-for-2"
    given_value,        \* argument of is_fair_trade; result of calculate_trade_value
    received_value,     \* argument of is_fair_trade; result of calculate_trade_value
    players_given,      \* argument of calculate_trade_value
    players_received,   \* argument of calculate_trade_value
    subsets,            \* the combinations drawn by the loops of a strategy
    called,             \* name of the routine that produced the result, or "none"
    trades,             \* the returned list of trade records
    fair                \* the returned boolean of is_fair_trade

vars == <<my_roster, opponent_roster, all_rosters, player_values, max_players,
          target_player_id, selected_give, selected_receive, consolidation_type,
          given_value, received_value, players_given, players_received, subsets,
          called, trades, fair>>

league == <<my_roster, opponent_roster, all_rosters, player_values>>

helper_state == <<players_given, players_received, subsets>>

(***************************************************************************)
(* Bounds of the model.                                                    *)
(***************************************************************************)
MaxMine == 3         \* largest 'my' roster of the leagues of Spec
MaxTheirs == 2       \* largest opponent roster of the leagues of Spec
MaxSel == 2          \* most players selected per side in the custom tab
TargetMine == 2      \* largest 'my' roster of SpecTarget
TargetTheirs == 1    \* largest opponent roster of SpecTarget
MaxK == 3            \* largest max_players argument tried in SpecTarget
BigMine == 5         \* largest 'my' roster of SpecCaps
BigTheirs == 3       \* largest opponent roster of SpecCaps
CustomMine == 3      \* largest 'my' roster of SpecCustom
CustomTheirs == 1    \* largest opponent roster of SpecCustom
CustomThird == 1     \* size of the third roster of SpecCustom
MaxAmount == 116     \* is_fair_trade is applied to every pair in 0..MaxAmount
EnumIds == 4         \* SpecEnum enumerates rosters of distinct ids of 1..EnumIds

(***************************************************************************)
(* Program constants.                                                      *)
(***************************************************************************)
\* FAIR_TRADE_THRESHOLD = 0.15, held in hundredths.
FAIR_TRADE_THRESHOLD == 15

Min(a, b) == IF a <= b THEN a ELSE b
Max(a, b) == IF a >= b THEN a ELSE b

\* dict.get(p, 0) on the valuation table
ValueOf(p, pv) == IF p \in DOMAIN pv THEN pv[p] ELSE 0

SumValues_first(players, pv) ==
    IF players = <<>> THEN 0 ELSE ValueOf(Head(players), pv)

RECURSIVE SumValues(_, _)
\* sum([player_values.get(p, 0) for p in players])
SumValues(players, pv) ==
    IF players = <<>> THEN 0
    ELSE ValueOf(Head(players), pv) + SumValues(Tail(players), pv)

\* calculate_trade_value: the pair (given_value, received_value)
calculate_trade_value(given, received, pv) ==
    <<SumValues(given, pv), SumValues(received, pv)>>

is_fair_trade_strict(gv, rv) ==
    IF gv = 0 \/ rv = 0 THEN FALSE
    ELSE 100 * Max(gv, rv) < (100 + FAIR_TRADE_THRESHOLD) * Min(gv, rv)

is_fair_trade_one_way(gv, rv) ==
    IF gv = 0 \/ rv = 0 THEN FALSE
    ELSE 100 * rv <= (100 + FAIR_TRADE_THRESHOLD) * gv

is_fair_trade_nozero(gv, rv) ==
    100 * Max(gv, rv) <= (100 + FAIR_TRADE_THRESHOLD) * Min(gv, rv)

(***************************************************************************)
(* is_fair_trade.  The source compares the double max/min with the double  *)
(* 1 + 0.15 (= the double nearest 1.15).  Division is correctly rounded,   *)
(* so for integers below 2^50 the comparison agrees with the exact         *)
(* rational comparison max/min <= 115/100, which is what is written here   *)
(* (min > 0 in the ELSE branch because values are non-negative).           *)
(***************************************************************************)
is_fair_trade(gv, rv) ==
    IF gv = 0 \/ rv = 0 THEN FALSE
    ELSE 100 * Max(gv, rv) <= (100 + FAIR_TRADE_THRESHOLD) * Min(gv, rv)

RECURSIVE Flatten(_)
\* concatenation of a sequence of sequences, in order (the nested for loops
\* append to one list)
Flatten(ss) == IF ss = <<>> THEN <<>> ELSE Head(ss) \o Flatten(Tail(ss))

RECURSIVE combinations_short(_, _)
combinations_short(s, r) ==
    IF r = 0 THEN << <<>> >>
    ELSE IF Len(s) <= r THEN <<>>
    ELSE LET rest == combinations_short(Tail(s), r - 1)
         IN  [i \in 1..Len(rest) |-> <<Head(s)>> \o rest[i]]
             \o combinations_short(Tail(s), r)

RECURSIVE combinations(_, _)
\* itertools.combinations(s, r): the r-element subsequences of s in
\* lexicographic order of their positions
combinations(s, r) ==
    IF r = 0 THEN << <<>> >>
    ELSE IF Len(s) < r THEN <<>>
    ELSE LET rest == combinations(Tail(s), r - 1)
         IN  [i \in 1..Len(rest) |-> <<Head(s)>> \o rest[i]]
             \o combinations(Tail(s), r)

SizeRange_short(k, roster) == 1..(Min(k, Len(roster)) - 1)

\* range(1, min(max_players + 1, len(roster) + 1))
SizeRange(k, roster) == 1..(Min(k + 1, Len(roster) + 1) - 1)

\* lines 124-125: for r in range(...): for combo in combinations(roster, r):
\* the combinations in the order the loops draw them
Enumerate(roster, k) ==
    Flatten([r \in SizeRange(k, roster) |-> combinations(roster, r)])

\* the dict appended by the target and value-improvement loops
Trade(give, receive, gv, rv) ==
    [you_give_ids |-> give, you_receive_ids |-> receive,
     you_give_value |-> gv, you_receive_value |-> rv, net_value |-> rv - gv]

RECURSIVE SortByKeys(_, _)
\* the trades whose key is the largest of keys, in their order in ts, followed
\* by those of the next largest key, and so on
SortByKeys(ts, keys) ==
    IF keys = {} THEN <<>>
    ELSE LET top == CHOOSE k \in keys : \A j \in keys : j <= k
         IN  SelectSeq(ts, LAMBDA t : t.net_value = top)
             \o SortByKeys(ts, keys \ {top})

SortByNetValue_none(ts) == ts

SortByNetValue_unstable(ts) ==
    SortByKeys([i \in 1..Len(ts) |-> ts[Len(ts) + 1 - i]],
               {ts[i].net_value : i \in 1..Len(ts)})

\* trades.sort(key=lambda x: x['net_value'], reverse=True): list.sort is
\* stable and reverse=True keeps the order of equal keys, so the result is the
\* trades by descending net_value, equal ones in their order of generation
SortByNetValue(ts) == SortByKeys(ts, {ts[i].net_value : i \in 1..Len(ts)})

Take_all(ts, n) == ts

Take_last(ts, n) == SubSeq(ts, Max(1, Len(ts) - n + 1), Len(ts))

\* trades[:n]
Take(ts, n) == SubSeq(ts, 1, Min(n, Len(ts)))

\* the elements of a list, for the tests 'p in roster'
Range(s) == {s[i] : i \in 1..Len(s)}

(***************************************************************************)
(* generate_target_player_trades (max_players defaults to 3)               *)
(***************************************************************************)
\* lines 119-137: the value guard and the loops over my combinations
TargetCandidates(target, mine, pv, k) ==
    LET target_value == ValueOf(target, pv)
    IN  IF target_value = 0 THEN <<>>
        ELSE LET combos == Enumerate(mine, k)
             IN  Flatten([i \in 1..Len(combos) |->
                   LET v == calculate_trade_value(combos[i], <<target>>, pv)
                   IN  IF is_fair_trade(v[1], v[2])
                       THEN <<Trade(combos[i], <<target>>, v[1], v[2])>>
                       ELSE <<>>])

generate_target_player_trades_unchecked(target, mine, theirs, pv, k) ==
    TargetCandidates(target, mine, pv, k)

generate_target_player_trades(target, mine, theirs, pv, k) ==
    IF target \notin Range(theirs) THEN <<>>
    ELSE TargetCandidates(target, mine, pv, k)

(***************************************************************************)
(* generate_value_improvement_trades (max_players defaults to 3)           *)
(***************************************************************************)
GainsValue_or_equal(gv, rv) == rv >= gv /\ is_fair_trade(gv, rv)

\* line 153: only include if you gain value and it's fair
GainsValue(gv, rv) == rv > gv /\ is_fair_trade(gv, rv)

\* the list built by the four nested loops, before sorting
ValueImprovementCandidates(mine, theirs, pv, k) ==
    Flatten([my_r \in SizeRange(k, mine) |->
      Flatten([opp_r \in SizeRange(k, theirs) |->
        LET my_combos  == combinations(mine, my_r)
            opp_combos == combinations(theirs, opp_r)
        IN  Flatten([i \in 1..Len(my_combos) |->
              Flatten([j \in 1..Len(opp_combos) |->
                LET v == calculate_trade_value(my_combos[i], opp_combos[j], pv)
                IN  IF GainsValue(v[1], v[2])
                    THEN <<Trade(my_combos[i], opp_combos[j], v[1], v[2])>>
                    ELSE <<>>])])])])

generate_value_improvement_trades(mine, theirs, pv, k) ==
    Take(SortByNetValue(ValueImprovementCandidates(mine, theirs, pv, k)), 20)

(***************************************************************************)
(* generate_consolidation_trades                                           *)
(***************************************************************************)
TypedTrade_one_tag(give, receive, gv, rv, type) ==
    [you_give_ids |-> give, you_receive_ids |-> receive,
     you_give_value |-> gv, you_receive_value |-> rv, net_value |-> rv - gv,
     type |-> "2-for-1"]

\* the dict appended by the consolidation loops
TypedTrade(give, receive, gv, rv, type) ==
    [you_give_ids |-> give, you_receive_ids |-> receive,
     you_give_value |-> gv, you_receive_value |-> rv, net_value |-> rv - gv,
     type |-> type]

\* lines 178 and 196: only if you're upgrading and it's fair
Upgrades(gv, rv) == rv > 0 /\ is_fair_trade(gv, rv)

\* first loop: every pair of mine against every single player of theirs
TwoForOneCandidates(mine, theirs, pv) ==
    LET my_combos == combinations(mine, 2)
    IN  Flatten([i \in 1..Len(my_combos) |->
          Flatten([j \in 1..Len(theirs) |->
            LET v == calculate_trade_value(my_combos[i], <<theirs[j]>>, pv)
            IN  IF Upgrades(v[1], v[2])
                THEN <<TypedTrade(my_combos[i], <<theirs[j]>>, v[1], v[2], "2-for-1")>>
                ELSE <<>>])])

\* second loop: every triple of mine against every pair of theirs
ThreeForTwoCandidates(mine, theirs, pv) ==
    LET my_combos  == combinations(mine, 3)
        opp_combos == combinations(theirs, 2)
    IN  Flatten([i \in 1..Len(my_combos) |->
          Flatten([j \in 1..Len(opp_combos) |->
            LET v == calculate_trade_value(my_combos[i], opp_combos[j], pv)
            IN  IF Upgrades(v[1], v[2])
                THEN <<TypedTrade(my_combos[i], opp_combos[j], v[1], v[2], "3-for-2")>>
                ELSE <<>>])])

generate_consolidation_trades(mine, theirs, pv) ==
    Take(SortByNetValue(TwoForOneCandidates(mine, theirs, pv)
                        \o ThreeForTwoCandidates(mine, theirs, pv)), 25)

\* tab 3: if consolidation_type != "All": keep the trades of that type
FilterByType(ts, type) ==
    IF type # "All" THEN SelectSeq(ts, LAMBDA t : t.type = type) ELSE ts

(***************************************************************************)
(* generate_buy_low_trades (max_players defaults to 2)                     *)
(***************************************************************************)
generate_buy_low_trades(mine, theirs, pv, k) ==
    LET found == generate_value_improvement_trades(mine, theirs, pv, k)
        buy_low_trades ==
            SelectSeq(found, LAMBDA t : Len(t.you_receive_ids) <= Len(t.you_give_ids))
    IN  Take(buy_low_trades, 15)

(***************************************************************************)
(* generate_custom_trades                                                  *)
(***************************************************************************)
HoldsAll_any(roster, receive) ==
    \E p \in Range(receive) : p \in Range(roster.players)

\* line 236: all(p in opponent_roster for p in selected_receive)
HoldsAll(roster, receive) == Range(receive) \subseteq Range(roster.players)

CanAdd_any(player, give) == TRUE

\* line 254: if player not in selected_give
CanAdd(player, give) == player \notin Range(give)

\* the trades one roster of all_rosters contributes
CustomTradesOfRoster(roster, give, receive, mine, pv) ==
    LET gv == SumValues(give, pv)
        rv == SumValues(receive, pv)
    IN  IF ~HoldsAll(roster, receive) THEN <<>>
        ELSE IF is_fair_trade(gv, rv)
        THEN <<[team_id |-> roster.roster_id,
                you_give_ids |-> give, you_receive_ids |-> receive,
                you_give_value |-> gv, you_receive_value |-> rv,
                net_value |-> rv - gv]>>
        ELSE IF rv - gv > 0
        THEN Flatten([i \in 1..Len(mine) |->
               LET new_given == give \o <<mine[i]>>
                   new_given_value == SumValues(new_given, pv)
               IN  IF CanAdd(mine[i], give) /\ is_fair_trade(new_given_value, rv)
                   THEN <<[team_id |-> roster.roster_id,
                           you_give_ids |-> new_given, you_receive_ids |-> receive,
                           you_give_value |-> new_given_value,
                           you_receive_value |-> rv,
                           net_value |-> rv - new_given_value,
                           balanced |-> TRUE]>>
                   ELSE <<>>])
        ELSE <<>>

generate_custom_trades(give, receive, mine, rosters, pv) ==
    IF receive = <<>> THEN <<>>
    ELSE Flatten([n \in 1..Len(rosters) |->
                    CustomTradesOfRoster(rosters[n], give, receive, mine, pv)])

(***************************************************************************)
(* League data.  A league is 'my' roster 1..m, one opponent roster         *)
(* m+1..m+o, and a valuation table.  Every player draws a value; a player  *)
(* who draws 0 is either in the table with value 0 or, in a sparse table,  *)
(* absent from it.                                                         *)
(***************************************************************************)
Ids(first, n) == [i \in 1..n |-> first + i - 1]

LeagueData(mineSizes, theirSizes, mineVals, theirVals) ==
    \E m \in mineSizes, o \in theirSizes :
      /\ my_roster = Ids(1, m)
      /\ opponent_roster = Ids(m + 1, o)
      /\ all_rosters = <<[roster_id |-> 1, players |-> Ids(1, m)],
                         [roster_id |-> 2, players |-> Ids(m + 1, o)]>>
      /\ \E mv \in [1..m -> mineVals], ov \in [(m + 1)..(m + o) -> theirVals],
            sparse \in BOOLEAN :
           LET draw == [p \in 1..(m + o) |-> IF p <= m THEN mv[p] ELSE ov[p]]
               dom  == {p \in 1..(m + o) : ~sparse \/ draw[p] # 0}
           IN  player_values = [p \in dom |-> draw[p]]

\* a league with a third roster, for the custom tab, which is given every
\* roster of the league
LeagueOfThree(mineSizes, theirSizes, thirdSize, mineVals, theirVals, thirdVals) ==
    \E m \in mineSizes, o \in theirSizes :
      /\ my_roster = Ids(1, m)
      /\ opponent_roster = Ids(m + 1, o)
      /\ all_rosters = <<[roster_id |-> 1, players |-> Ids(1, m)],
                         [roster_id |-> 2, players |-> Ids(m + 1, o)],
                         [roster_id |-> 3, players |-> Ids(m + o + 1, thirdSize)]>>
      /\ \E mv \in [1..m -> mineVals], ov \in [(m + 1)..(m + o) -> theirVals],
            tv \in [(m + o + 1)..(m + o + thirdSize) -> thirdVals],
            sparse \in BOOLEAN :
           LET draw == [p \in 1..(m + o + thirdSize) |->
                          IF p <= m THEN mv[p] ELSE IF p <= m + o THEN ov[p] ELSE tv[p]]
               dom  == {p \in 1..(m + o + thirdSize) : ~sparse \/ draw[p] # 0}
           IN  player_values = [p \in dom |-> draw[p]]

NoCall ==
    /\ called = "none"
    /\ trades = <<>>
    /\ fair = FALSE
    /\ max_players = 0
    /\ target_player_id = 0
    /\ selected_give = <<>>
    /\ selected_receive = <<>>
    /\ consolidation_type = "All"
    /\ given_value = 0
    /\ received_value = 0
    /\ players_given = <<>>
    /\ players_received = <<>>
    /\ subsets = <<>>

SpecVals == {0, 50, 105}
TargetVals == {0, 50, 60, 105}
ThirdVals == {50, 105}
BigMineVals == {20, 40}
BigTheirVals == {23, 40}

\* the sub-lists of s with at most n elements, in the order of s
SubLists(s, n) ==
    UNION {Range(combinations(s, r)) : r \in 0..Min(n, Len(s))}

(***************************************************************************)
(* One action per routine: the call and what it returns.  A behaviour is   *)
(* one call on the league data drawn by Init.                              *)
(***************************************************************************)
IsFairTrade(a, b) ==
    /\ called = "none"
    /\ called' = "is_fair_trade"
    /\ given_value' = a
    /\ received_value' = b
    /\ fair' = is_fair_trade(a, b)
    /\ UNCHANGED <<league, helper_state, max_players, target_player_id, selected_give,
                   selected_receive, consolidation_type, trades>>

\* a second call of is_fair_trade, on the amounts of the first exchanged
IsFairTradeSwapped ==
    /\ called = "is_fair_trade"
    /\ called' = "is_fair_trade_swapped"
    /\ given_value' = received_value
    /\ received_value' = given_value
    /\ fair' = is_fair_trade(received_value, given_value)
    /\ UNCHANGED <<league, helper_state, max_players, target_player_id, selected_give,
                   selected_receive, consolidation_type, trades>>

TargetPlayerTrades(target, k) ==
    /\ called = "none"
    /\ called' = "generate_target_player_trades"
    /\ target_player_id' = target
    /\ max_players' = k
    /\ trades' = generate_target_player_trades(target, my_roster, opponent_roster,
                                               player_values, k)
    /\ UNCHANGED <<league, helper_state, selected_give, selected_receive, consolidation_type,
                   given_value, received_value, fair>>

ValueImprovementTrades(k) ==
    /\ called = "none"
    /\ called' = "generate_value_improvement_trades"
    /\ max_players' = k
    /\ trades' = generate_value_improvement_trades(my_roster, opponent_roster,
                                                   player_values, k)
    /\ UNCHANGED <<league, helper_state, target_player_id, selected_give, selected_receive,
                   consolidation_type, given_value, received_value, fair>>

\* tab 3: the call followed by the filter on the selected type
ConsolidationTrades(type) ==
    /\ called = "none"
    /\ called' = "generate_consolidation_trades"
    /\ consolidation_type' = type
    /\ trades' = FilterByType(generate_consolidation_trades(my_roster, opponent_roster,
                                                            player_values), type)
    /\ UNCHANGED <<league, helper_state, max_players, target_player_id, selected_give,
                   selected_receive, given_value, received_value, fair>>

BuyLowTrades(k) ==
    /\ called = "none"
    /\ called' = "generate_buy_low_trades"
    /\ max_players' = k
    /\ trades' = generate_buy_low_trades(my_roster, opponent_roster, player_values, k)
    /\ UNCHANGED <<league, helper_state, target_player_id, selected_give, selected_receive,
                   consolidation_type, given_value, received_value, fair>>

CustomTrades(give, receive) ==
    /\ called = "none"
    /\ called' = "generate_custom_trades"
    /\ selected_give' = give
    /\ selected_receive' = receive
    /\ trades' = generate_custom_trades(give, receive, my_roster, all_rosters,
                                        player_values)
    /\ UNCHANGED <<league, helper_state, max_players, target_player_id, consolidation_type,
                   given_value, received_value, fair>>

\* given_value, received_value = calculate_trade_value(...)
CalculateTradeValue(give, receive) ==
    /\ called = "none"
    /\ called' = "calculate_trade_value"
    /\ players_given' = give
    /\ players_received' = receive
    /\ given_value' = calculate_trade_value(give, receive, player_values)[1]
    /\ received_value' = calculate_trade_value(give, receive, player_values)[2]
    /\ UNCHANGED <<league, subsets, max_players, target_player_id, selected_give,
                   selected_receive, consolidation_type, trades, fair>>

\* the enumeration of my roster as the target and value-improvement loops
\* run it
EnumerateSubsets(k) ==
    /\ called = "none"
    /\ called' = "combinations"
    /\ max_players' = k
    /\ subsets' = Enumerate(my_roster, k)
    /\ UNCHANGED <<league, players_given, players_received, target_player_id,
                   selected_give, selected_receive, consolidation_type,
                   given_value, received_value, trades, fair>>

ConsolidationTypes == {"All", "2-for-1", "3-for-2"}

(***************************************************************************)
(* Spec: the five strategies as the tabs call them (max_players left at    *)
(* its default: 3 for target and value improvement, 2 for buy-low).  The   *)
(* target is any player of the opponent roster, one of mine, or a player   *)
(* of no roster (0); the custom selections are sub-lists of my roster and  *)
(* of the opponent roster.                                                 *)
(***************************************************************************)
Init ==
    /\ LeagueData(0..MaxMine, 0..MaxTheirs, SpecVals, SpecVals)
    /\ NoCall

Next ==
    \/ \E t \in Range(opponent_roster) \cup {0, 1} : TargetPlayerTrades(t, 3)
    \/ ValueImprovementTrades(3)
    \/ \E type \in ConsolidationTypes : ConsolidationTrades(type)
    \/ BuyLowTrades(2)
    \/ \E g \in SubLists(my_roster, MaxSel), r \in SubLists(opponent_roster, MaxSel) :
         CustomTrades(g, r)

Spec == Init /\ [][Next]_vars

(***************************************************************************)
(* SpecFair: is_fair_trade on every pair of amounts in 0..MaxAmount.       *)
(***************************************************************************)
InitFair ==
    /\ LeagueData({0}, {0}, {0}, {0})
    /\ NoCall

NextFair == \E a \in 0..MaxAmount, b \in 0..MaxAmount : IsFairTrade(a, b)

SpecFair == InitFair /\ [][NextFair]_vars

(***************************************************************************)
(* SpecSwap: is_fair_trade on a pair of amounts, then on the pair          *)
(* exchanged.                                                              *)
(***************************************************************************)
NextSwap ==
    \/ \E a \in 0..MaxAmount, b \in 0..MaxAmount : IsFairTrade(a, b)
    \/ IsFairTradeSwapped

SpecSwap == InitFair /\ [][NextSwap]_vars

(***************************************************************************)
(* SpecTarget: generate_target_player_trades with max_players in 0..MaxK.  *)
(***************************************************************************)
InitTarget ==
    /\ LeagueData(0..TargetMine, 0..TargetTheirs, TargetVals, TargetVals)
    /\ NoCall

NextTarget ==
    \E t \in Range(opponent_roster) \cup {0, 1}, k \in 0..MaxK : TargetPlayerTrades(t, k)

SpecTarget == InitTarget /\ [][NextTarget]_vars

(***************************************************************************)
(* SpecCaps: the three ranked strategies with max_players 2 or 3 (the two  *)
(* defaults), on the leagues of Spec and on leagues with rosters large     *)
(* enough for the result caps to cut.                                      *)
(***************************************************************************)
InitCaps ==
    /\ \/ LeagueData(0..BigMine, 0..BigTheirs, BigMineVals, BigTheirVals)
       \/ LeagueData(0..MaxMine, 0..MaxTheirs, SpecVals, SpecVals)
    /\ NoCall

NextCaps ==
    \/ \E k \in {2, 3} : ValueImprovementTrades(k)
    \/ \E type \in ConsolidationTypes : ConsolidationTrades(type)
    \/ \E k \in {2, 3} : BuyLowTrades(k)

SpecCaps == InitCaps /\ [][NextCaps]_vars

(***************************************************************************)
(* SpecEnum: the subset enumeration on every roster of distinct ids of     *)
(* 1..EnumIds, in any order, with max_players in 0..MaxK.                  *)
(***************************************************************************)
\* the lists of distinct ids of 1..n
Rosters(n) ==
    UNION {{s \in [1..len -> 1..n] : \A i, j \in 1..len : i # j => s[i] # s[j]} :
             len \in 0..n}

InitEnum ==
    /\ my_roster \in Rosters(EnumIds)
    /\ opponent_roster = <<>>
    /\ all_rosters = <<[roster_id |-> 1, players |-> my_roster]>>
    /\ player_values = <<>>
    /\ NoCall

NextEnum == \E k \in 0..MaxK : EnumerateSubsets(k)

SpecEnum == InitEnum /\ [][NextEnum]_vars

(***************************************************************************)
(* SpecPrice: calculate_trade_value on the sub-lists of my roster and of   *)
(* the opponent roster followed by a player of no roster (0), who is in no *)
(* valuation table.                                                        *)
(***************************************************************************)
InitPrice ==
    /\ LeagueData(0..TargetMine, 0..TargetTheirs, TargetVals, TargetVals)
    /\ NoCall

NextPrice ==
    \E g \in SubLists(my_roster, Len(my_roster)),
       r \in SubLists(opponent_roster \o <<0>>, Len(opponent_roster) + 1) :
      CalculateTradeValue(g, r)

SpecPrice == InitPrice /\ [][NextPrice]_vars

(***************************************************************************)
(* SpecCustom: generate_custom_trades on a league of three rosters.  The   *)
(* players to acquire are selected among the players of the other two      *)
(* rosters, the players to give among mine.                                *)
(***************************************************************************)
InitCustom ==
    /\ LeagueOfThree(0..CustomMine, 0..CustomTheirs, CustomThird,
                     SpecVals, SpecVals, ThirdVals)
    /\ NoCall

NextCustom ==
    \E g \in SubLists(my_roster, MaxSel),
       r \in SubLists(all_rosters[2].players \o all_rosters[3].players, MaxSel) :
      CustomTrades(g, r)

SpecCustom == InitCustom /\ [][NextCustom]_vars

(***************************************************************************)
(* Properties.                                                             *)
(***************************************************************************)
TradeIndices == 1..Len(trades)

\* max(a,b)/min(a,b) <= 1.15 for positive a, b, written without the model's
\* operators: 20 * larger <= 23 * smaller
WithinThreshold(a, b) ==
    /\ a > 0
    /\ b > 0
    /\ IF a >= b THEN 20 * a <= 23 * b ELSE 20 * b <= 23 * a

\* C1: is_fair_trade(a, b) is true exactly when a > 0, b > 0 and
\* max(a,b)/min(a,b) <= 1.15; it is false whenever a = 0 or b = 0;
\* is_fair_trade(100, 115) is true and is_fair_trade(100, 116) is false.
C1_FairnessContract ==
    called = "is_fair_trade" =>
      /\ fair = WithinThreshold(given_value, received_value)
      /\ (given_value = 0 \/ received_value = 0) => ~fair
      /\ (given_value = 100 /\ received_value = 115) => fair
      /\ (given_value = 100 /\ received_value = 116) => ~fair

C1_Witness ==
    /\ called = "is_fair_trade"
    /\ given_value = 100
    /\ received_value = 115
    /\ fair

\* C2: every candidate returned by generate_value_improvement_trades has
\* you_receive_value > you_give_value and is fair, the two values being the
\* valuation sums of its give ids and receive ids.
C2_ValueImprovementInvariant ==
    called = "generate_value_improvement_trades" =>
      \A i \in TradeIndices :
        /\ trades[i].you_give_value = SumValues(trades[i].you_give_ids, player_values)
        /\ trades[i].you_receive_value = SumValues(trades[i].you_receive_ids, player_values)
        /\ trades[i].you_receive_value > trades[i].you_give_value
        /\ WithinThreshold(trades[i].you_give_value, trades[i].you_receive_value)

\* a call that returned candidates although some pair of equal value was
\* enumerated and rejected
C2_Witness ==
    /\ called = "generate_value_improvement_trades"
    /\ trades # <<>>
    /\ \E p \in Range(my_roster), q \in Range(opponent_roster) :
         /\ ValueOf(p, player_values) > 0
         /\ ValueOf(p, player_values) = ValueOf(q, player_values)

\* C5: the lists returned by generate_value_improvement_trades and by
\* generate_consolidation_trades are non-increasing in net_value.
C5_RankedByNetValue ==
    called \in {"generate_value_improvement_trades", "generate_consolidation_trades"} =>
      \A i \in TradeIndices :
        i < Len(trades) => trades[i].net_value >= trades[i + 1].net_value

\* a value-improvement result whose order differs from the order of generation
C5_Witness ==
    /\ called = "generate_value_improvement_trades"
    /\ Len(trades) >= 2
    /\ trades[1].net_value > trades[Len(trades)].net_value
    /\ trades # Take(ValueImprovementCandidates(my_roster, opponent_roster,
                                                 player_values, max_players), 20)

\* C6: generate_value_improvement_trades returns at most 20 candidates,
\* generate_consolidation_trades at most 25, generate_buy_low_trades at most 15.
C6_TruncationBound ==
    /\ called = "generate_value_improvement_trades" => Len(trades) <= 20
    /\ called = "generate_consolidation_trades" => Len(trades) <= 25
    /\ called = "generate_buy_low_trades" => Len(trades) <= 15

\* a value-improvement call with more than 20 qualifying candidates
C6_Witness ==
    /\ called = "generate_value_improvement_trades"
    /\ Len(trades) = 20
    /\ Len(ValueImprovementCandidates(my_roster, opponent_roster,
                                      player_values, max_players)) > 20

Strategies ==
    {"generate_target_player_trades", "generate_value_improvement_trades",
     "generate_consolidation_trades", "generate_buy_low_trades",
     "generate_custom_trades"}

\* C3 as stated: no candidate returned by any of the five strategies contains,
\* in its give ids or its receive ids, a player whose valuation is 0 or
\* missing from the valuation table.
C3_NoZeroValuedPlayer ==
    called \in Strategies =>
      \A i \in TradeIndices :
        \A p \in Range(trades[i].you_give_ids) \cup Range(trades[i].you_receive_ids) :
          ValueOf(p, player_values) > 0

\* C3 as amended: a side whose players are all zero-valued or unvalued
\* disqualifies a candidate: every candidate returned by any of the five
\* strategies has a positive give value and a positive receive value, so each
\* side holds at least one player with a positive valuation.
C3_NoZeroValuedSide ==
    called \in Strategies =>
      \A i \in TradeIndices :
        /\ trades[i].you_give_value > 0
        /\ trades[i].you_receive_value > 0
        /\ \E p \in Range(trades[i].you_give_ids) : ValueOf(p, player_values) > 0
        /\ \E p \in Range(trades[i].you_receive_ids) : ValueOf(p, player_values) > 0

\* a returned candidate that holds a zero-valued or unvalued player beside a
\* valued one
C3_Witness ==
    /\ called \in Strategies
    /\ \E i \in TradeIndices :
         \E p \in Range(trades[i].you_give_ids) \cup Range(trades[i].you_receive_ids) :
           ValueOf(p, player_values) = 0

\* the roster a candidate's receive ids must come from: for custom balancing
\* the roster whose roster_id tags the candidate, otherwise the opponent roster
CounterpartPlayers(t) ==
    IF called = "generate_custom_trades"
    THEN UNION {Range(all_rosters[n].players) :
                  n \in {j \in 1..Len(all_rosters) : all_rosters[j].roster_id = t.team_id}}
    ELSE Range(opponent_roster)

\* C4: for every candidate returned by any of the five strategies, the give
\* ids and the receive ids are both non-empty and disjoint, every give id is
\* on my roster and every receive id is on the counterpart roster of the call.
C4_SidesFromTheirRosters ==
    called \in Strategies =>
      \A i \in TradeIndices :
        /\ trades[i].you_give_ids # <<>>
        /\ trades[i].you_receive_ids # <<>>
        /\ Range(trades[i].you_give_ids) \cap Range(trades[i].you_receive_ids) = {}
        /\ Range(trades[i].you_give_ids) \subseteq Range(my_roster)
        /\ Range(trades[i].you_receive_ids) \subseteq CounterpartPlayers(trades[i])

\* a target call that returned a candidate
C4_Witness ==
    /\ called = "generate_target_player_trades"
    /\ trades # <<>>
    /\ trades[1].you_receive_ids = <<target_player_id>>

\* the non-empty sub-lists of a roster with at most k players
Picks(roster, k) == SubLists(roster, k) \ {<<>>}

\* C7: generate_buy_low_trades returns candidates with 1..k players per side
\* that are fair, have receiveValue > giveValue and len(receive) <= len(give),
\* and whenever it returns fewer than 15 candidates, every candidate pair
\* satisfying those keep-conditions is in the result.
C7_BuyLowKeepsBeforeCap ==
    called = "generate_buy_low_trades" =>
      /\ \A i \in TradeIndices :
           /\ trades[i].you_give_ids \in Picks(my_roster, max_players)
           /\ trades[i].you_receive_ids \in Picks(opponent_roster, max_players)
           /\ WithinThreshold(trades[i].you_give_value, trades[i].you_receive_value)
           /\ trades[i].you_receive_value > trades[i].you_give_value
           /\ Len(trades[i].you_receive_ids) <= Len(trades[i].you_give_ids)
      /\ Len(trades) < 15 =>
           \A g \in Picks(my_roster, max_players), r \in Picks(opponent_roster, max_players) :
             ( /\ WithinThreshold(SumValues(g, player_values), SumValues(r, player_values))
               /\ SumValues(r, player_values) > SumValues(g, player_values)
               /\ Len(r) <= Len(g) )
             => \E i \in TradeIndices :
                  trades[i].you_give_ids = g /\ trades[i].you_receive_ids = r

\* C8: filtering the result of generate_consolidation_trades to one shape
\* gives the same answer as searching for that shape alone: whenever the
\* filtered list has fewer than 25 candidates, it contains every fair
\* candidate of that shape with receiveValue > 0.
C8_FilterEqualsSearch ==
    (called = "generate_consolidation_trades" /\ consolidation_type # "All"
       /\ Len(trades) < 25) =>
      LET gives == IF consolidation_type = "2-for-1" THEN 2 ELSE 3
          gets  == IF consolidation_type = "2-for-1" THEN 1 ELSE 2
      IN  \A g \in Range(combinations(my_roster, gives)),
             r \in Range(combinations(opponent_roster, gets)) :
            ( /\ SumValues(r, player_values) > 0
              /\ WithinThreshold(SumValues(g, player_values), SumValues(r, player_values)) )
            => \E i \in TradeIndices :
                 trades[i].you_give_ids = g /\ trades[i].you_receive_ids = r

\* the gives of my roster that are fair against the target, 1..max_players
\* players each
FairGives ==
    {g \in Picks(my_roster, max_players) :
       WithinThreshold(SumValues(g, player_values),
                       ValueOf(target_player_id, player_values))}

\* C9: when the target is on the opponent roster with value > 0,
\* generate_target_player_trades returns exactly one candidate for each subset
\* of my roster of size 1..min(max_players, len(my_roster)) whose summed value
\* is fair against the target's value, with receive = [target] and no cap; for
\* mine = [P1(50), P2(60)], theirs = [P3(105)], target P3 it returns exactly
\* give = [P1, P2] (110), receive = [P3] (105), net_value = -5.
C9_TargetCandidates ==
    (called = "generate_target_player_trades"
       /\ target_player_id \in Range(opponent_roster)
       /\ ValueOf(target_player_id, player_values) > 0) =>
      /\ \A g \in FairGives :
           Cardinality({i \in TradeIndices : trades[i].you_give_ids = g}) = 1
      /\ Len(trades) = Cardinality(FairGives)
      /\ \A i \in TradeIndices :
           /\ trades[i].you_give_ids \in FairGives
           /\ trades[i].you_receive_ids = <<target_player_id>>
           /\ trades[i].you_give_value = SumValues(trades[i].you_give_ids, player_values)
           /\ trades[i].you_receive_value = ValueOf(target_player_id, player_values)
           /\ trades[i].net_value =
                trades[i].you_receive_value - trades[i].you_give_value
      /\ ( /\ my_roster = <<1, 2>>
           /\ opponent_roster = <<3>>
           /\ target_player_id = 3
           /\ max_players >= 2
           /\ \A p \in 1..3 : p \in DOMAIN player_values
           /\ player_values[1] = 50 /\ player_values[2] = 60 /\ player_values[3] = 105 )
         => trades = <<[you_give_ids |-> <<1, 2>>, you_receive_ids |-> <<3>>,
                        you_give_value |-> 110, you_receive_value |-> 105,
                        net_value |-> -5]>>

\* the end-to-end example of the specification
C9_Witness ==
    /\ called = "generate_target_player_trades"
    /\ my_roster = <<1, 2>>
    /\ opponent_roster = <<3>>
    /\ target_player_id = 3
    /\ max_players = 3
    /\ ValueOf(1, player_values) = 50
    /\ ValueOf(2, player_values) = 60
    /\ ValueOf(3, player_values) = 105
    /\ Len(trades) = 1
    /\ trades[1].net_value = -5

\* C10: generate_target_player_trades returns an empty list whenever the
\* target id is not on the opponent roster, or the target's valuation is 0 or
\* missing, regardless of my roster and max_players.
C10_TargetGuards ==
    (called = "generate_target_player_trades"
       /\ \/ target_player_id \notin Range(opponent_roster)
          \/ ValueOf(target_player_id, player_values) = 0) =>
      trades = <<>>

\* a valued target that is not on the opponent roster, with a player of mine
\* of the same value (a fair give) and max_players >= 1
C10_Witness ==
    /\ called = "generate_target_player_trades"
    /\ target_player_id \notin Range(opponent_roster)
    /\ ValueOf(target_player_id, player_values) > 0
    /\ max_players >= 1
    /\ \E p \in Range(my_roster) :
         ValueOf(p, player_values) = ValueOf(target_player_id, player_values)
    /\ trades = <<>>

\* the position of player p in my roster
PositionInMine(p) == CHOOSE i \in 1..Len(my_roster) : my_roster[i] = p

\* C11: the subset enumeration used by the strategies (sizes 1..min(k, n) of a
\* roster of n distinct ids) yields every subset of size 1..k exactly once,
\* never a permutation of an already yielded subset, each with its ids in
\* roster order; for roster [A,B,C] and k = 2 it yields exactly
\* {A},{B},{C},{A,B},{A,C},{B,C}.
C11_EnumeratorComplete ==
    called = "combinations" =>
      /\ \A S \in SUBSET Range(my_roster) :
           (1 <= Cardinality(S) /\ Cardinality(S) <= max_players) =>
             Cardinality({i \in 1..Len(subsets) : Range(subsets[i]) = S}) = 1
      /\ \A i \in 1..Len(subsets) :
           /\ 1 <= Len(subsets[i])
           /\ Len(subsets[i]) <= max_players
           /\ Range(subsets[i]) \subseteq Range(my_roster)
           /\ \A a, b \in 1..Len(subsets[i]) :
                a < b => PositionInMine(subsets[i][a]) < PositionInMine(subsets[i][b])
      /\ (my_roster = <<1, 2, 3>> /\ max_players = 2) =>
           /\ Len(subsets) = 6
           /\ Range(subsets) = {<<1>>, <<2>>, <<3>>, <<1, 2>>, <<1, 3>>, <<2, 3>>}

\* the example of the specification, and a roster whose ids are not ascending
C11_Witness ==
    /\ called = "combinations"
    /\ my_roster = <<3, 1, 2>>
    /\ max_players = 2
    /\ Len(subsets) = 6
    /\ <<3, 2>> \in Range(subsets)

RECURSIVE TableTotal(_)
\* the sum of the table's values over the valued players of a set
TableTotal(S) ==
    IF S \cap DOMAIN player_values = {} THEN 0
    ELSE LET p == CHOOSE q \in S \cap DOMAIN player_values : TRUE
         IN  player_values[p] + TableTotal(S \ {p})

\* C12: calculate_trade_value(give, receive, V) returns (sum of V[p] over
\* give, sum of V[p] over receive), an id absent from V contributing 0; the
\* give value of ([A,B], []) is V[A] + V[B].
C12_PricerAdditive ==
    called = "calculate_trade_value" =>
      /\ given_value = TableTotal(Range(players_given))
      /\ received_value = TableTotal(Range(players_received))
      /\ ( /\ players_given = <<1, 2>>
           /\ players_received = <<>>
           /\ {1, 2} \subseteq DOMAIN player_values )
         => /\ given_value = player_values[1] + player_values[2]
            /\ received_value = 0

\* a give of a valued and an unvalued player priced at the valued one alone,
\* a receive of a valued player and the player of no roster
C12_Witness ==
    /\ called = "calculate_trade_value"
    /\ players_given = <<1, 2>>
    /\ 1 \notin DOMAIN player_values
    /\ 2 \in DOMAIN player_values
    /\ given_value = 60
    /\ players_received = <<3, 0>>
    /\ received_value = 105

\* the net_value of the dict built for a candidate of the given side values
NetValue(gv, rv) == Trade(<<>>, <<>>, gv, rv).net_value

\* C13: for all positive a, b: is_fair_trade(a, b) = is_fair_trade(b, a);
\* exchanging give and receive leaves the fairness unchanged and only negates
\* the net value.
C13_FairnessSymmetric ==
    [][(called = "is_fair_trade" /\ called' = "is_fair_trade_swapped"
          /\ given_value > 0 /\ received_value > 0) =>
         /\ given_value' = received_value
         /\ received_value' = given_value
         /\ fair' = fair
         /\ NetValue(given_value', received_value')
              = 0 - NetValue(given_value, received_value)]_vars

\* a fair pair of different amounts judged fair again after the exchange
C13_Witness ==
    /\ called = "is_fair_trade_swapped"
    /\ given_value = 115
    /\ received_value = 100
    /\ fair

\* the rosters of all_rosters that hold every requested receive player
Holders ==
    {n \in 1..Len(all_rosters) :
       \A p \in Range(selected_receive) : p \in Range(all_rosters[n].players)}

\* C14: generate_custom_trades only produces candidates for rosters that
\* contain every requested receive player: each candidate's team_id is a
\* roster holding all of selected_receive, and if no roster holds all of them
\* (or selected_receive is empty) the result is the empty list.
C14_CustomNeedsHolder ==
    called = "generate_custom_trades" =>
      /\ \A i \in TradeIndices :
           \E n \in Holders : all_rosters[n].roster_id = trades[i].team_id
      /\ (selected_receive = <<>> \/ Holders = {}) => trades = <<>>

\* a request for players of two different rosters, against a give that is fair
C14_Witness ==
    /\ called = "generate_custom_trades"
    /\ selected_receive # <<>>
    /\ Holders = {}
    /\ WithinThreshold(TableTotal(Range(selected_give)),
                       TableTotal(Range(selected_receive)))
    /\ trades = <<>>

\* the positions of the players of my roster who are not in selected_give
\* and whose addition makes the give fair against selected_receive
FairAdditions ==
    {i \in 1..Len(my_roster) :
       /\ my_roster[i] \notin Range(selected_give)
       /\ WithinThreshold(TableTotal(Range(selected_give) \cup {my_roster[i]}),
                          TableTotal(Range(selected_receive)))}

\* C15: in generate_custom_trades, for a qualifying roster whose initial
\* selection is unfair: if receiveValue > giveValue, the roster contributes
\* exactly one candidate for each my-roster player p not in selected_give such
\* that selected_give + [p] is fair against selected_receive, in my-roster
\* order, each adding exactly one player; if receiveValue <= giveValue, or no
\* single added player reaches fairness, it contributes no candidate.
C15_CustomBalancing ==
    (called = "generate_custom_trades" /\ selected_receive # <<>> /\ Holders # {}
       /\ ~WithinThreshold(TableTotal(Range(selected_give)),
                           TableTotal(Range(selected_receive)))) =>
      IF TableTotal(Range(selected_receive)) > TableTotal(Range(selected_give))
      THEN /\ Len(trades) = Cardinality(FairAdditions)
           /\ \A j \in TradeIndices :
                \E i \in FairAdditions :
                  /\ Cardinality({h \in FairAdditions : h < i}) = j - 1
                  /\ trades[j].you_give_ids = selected_give \o <<my_roster[i]>>
                  /\ trades[j].you_receive_ids = selected_receive
                  /\ trades[j].you_give_value = TableTotal(Range(trades[j].you_give_ids))
                  /\ trades[j].you_receive_value = TableTotal(Range(selected_receive))
                  /\ trades[j].balanced
      ELSE trades = <<>>

\* a non-empty give balanced by one added player, while another unselected
\* player of mine does not reach fairness
C15_Witness ==
    /\ called = "generate_custom_trades"
    /\ selected_give # <<>>
    /\ Len(trades) = 1
    /\ "balanced" \in DOMAIN trades[1]
    /\ \E p \in Range(my_roster) : p \notin Range(trades[1].you_give_ids)

\* C16: every candidate returned by generate_consolidation_trades either
\* gives exactly 2 players for exactly 1 and is tagged '2-for-1', or gives
\* exactly 3 for exactly 2 and is tagged '3-for-2'; each has
\* you_receive_value > 0 and is fair.
C16_ConsolidationShapes ==
    called = "generate_consolidation_trades" =>
      \A i \in TradeIndices :
        /\ \/ /\ Len(trades[i].you_give_ids) = 2
              /\ Len(trades[i].you_receive_ids) = 1
              /\ trades[i].type = "2-for-1"
           \/ /\ Len(trades[i].you_give_ids) = 3
              /\ Len(trades[i].you_receive_ids) = 2
              /\ trades[i].type = "3-for-2"
        /\ trades[i].you_give_value = TableTotal(Range(trades[i].you_give_ids))
        /\ trades[i].you_receive_value = TableTotal(Range(trades[i].you_receive_ids))
        /\ trades[i].you_receive_value > 0
        /\ WithinThreshold(trades[i].you_give_value, trades[i].you_receive_value)

\* an unfiltered consolidation result holding candidates of both shapes
C16_Witness ==
    /\ called = "generate_consolidation_trades"
    /\ consolidation_type = "All"
    /\ \E i \in TradeIndices : trades[i].type = "2-for-1"
    /\ \E i \in TradeIndices : trades[i].type = "3-for-2"

\* the pairs <<give, receive>> that value improvement keeps: 1..max_players
\* players per side, more received than given, fair
QualifyingImprovements ==
    {q \in Picks(my_roster, max_players) \X Picks(opponent_roster, max_players) :
       /\ TableTotal(Range(q[2])) > TableTotal(Range(q[1]))
       /\ WithinThreshold(TableTotal(Range(q[1])), TableTotal(Range(q[2])))}

\* the pairs <<give, receive>> that consolidation keeps: 2 for 1 or 3 for 2,
\* a positive receive value, fair
QualifyingConsolidations ==
    {q \in Picks(my_roster, 3) \X Picks(opponent_roster, 2) :
       /\ <<Len(q[1]), Len(q[2])>> \in {<<2, 1>>, <<3, 2>>}
       /\ TableTotal(Range(q[2])) > 0
       /\ WithinThreshold(TableTotal(Range(q[1])), TableTotal(Range(q[2])))}

\* the pairs <<give, receive>> of the returned candidates
Returned == {<<trades[i].you_give_ids, trades[i].you_receive_ids>> : i \in TradeIndices}

\* every pair of qualifying that is not returned is worth no more than any
\* returned candidate, and below the cap nothing qualifying is left out
KeepsTheBest(qualifying, cap) ==
    /\ Returned \subseteq qualifying
    /\ \A q \in qualifying \ Returned :
         \A i \in TradeIndices :
           TableTotal(Range(q[2])) - TableTotal(Range(q[1])) <= trades[i].net_value
    /\ Len(trades) < cap => qualifying \subseteq Returned

\* C17: truncation keeps the best candidates: for
\* generate_value_improvement_trades (cap 20) and
\* generate_consolidation_trades (cap 25), every qualifying candidate that is
\* not returned has net_value <= the net_value of every returned candidate,
\* and if fewer than the cap are returned then all qualifying candidates are
\* returned.
C17_TruncationKeepsBest ==
    /\ called = "generate_value_improvement_trades" =>
         KeepsTheBest(QualifyingImprovements, 20)
    /\ (called = "generate_consolidation_trades" /\ consolidation_type = "All") =>
         KeepsTheBest(QualifyingConsolidations, 25)

\* an unfiltered consolidation result cut at 25, with candidates of
\* different net value, that leaves qualifying candidates out
C17_Witness ==
    /\ called = "generate_consolidation_trades"
    /\ consolidation_type = "All"
    /\ Len(trades) = 25
    /\ trades[1].net_value > trades[25].net_value
    /\ Cardinality(QualifyingConsolidations) > 25

\* the positions in roster of the players of a combination
Positions(roster, combo) ==
    [n \in 1..Len(combo) |-> CHOOSE i \in 1..Len(roster) : roster[i] = combo[n]]

\* a comes before b in the lexicographic order of equally long lists
LexLess(a, b) ==
    \E n \in 1..Len(a) : a[n] < b[n] /\ \A m \in 1..(n - 1) : a[m] = b[m]

\* combination order on my side, then combination order on their side
CombosBefore(t, u) ==
    LET tg == Positions(my_roster, t.you_give_ids)
        ug == Positions(my_roster, u.you_give_ids)
        tr == Positions(opponent_roster, t.you_receive_ids)
        ur == Positions(opponent_roster, u.you_receive_ids)
    IN  LexLess(tg, ug) \/ (tg = ug /\ LexLess(tr, ur))

\* the order of generation of the value-improvement loops: my-side size,
\* their-side size, my combination, their combination
ImprovementBefore(t, u) ==
    LET sizes(x) == <<Len(x.you_give_ids), Len(x.you_receive_ids)>>
    IN  LexLess(sizes(t), sizes(u)) \/ (sizes(t) = sizes(u) /\ CombosBefore(t, u))

\* the order of generation of the consolidation loops: all 2-for-1 before all
\* 3-for-2, each in combination order
ConsolidationBefore(t, u) ==
    \/ t.type = "2-for-1" /\ u.type = "3-for-2"
    \/ t.type = u.type /\ CombosBefore(t, u)

\* C18: ranking is a stable sort over a single deterministic pass: among
\* candidates with equal net_value, the output of
\* generate_value_improvement_trades and generate_consolidation_trades keeps
\* them in generation order (value improvement: my-side size ascending, then
\* their-side size ascending, then my combination order, then their
\* combination order; consolidation: all 2-for-1 before all 3-for-2).
C18_StableRanking ==
    /\ called = "generate_value_improvement_trades" =>
         \A i, j \in TradeIndices :
           (i < j /\ trades[i].net_value = trades[j].net_value)
             => ImprovementBefore(trades[i], trades[j])
    /\ called = "generate_consolidation_trades" =>
         \A i, j \in TradeIndices :
           (i < j /\ trades[i].net_value = trades[j].net_value)
             => ConsolidationBefore(trades[i], trades[j])

\* a value-improvement result that the sort reordered and that holds two
\* candidates of equal net value and different sizes
C18_Witness ==
    /\ called = "generate_value_improvement_trades"
    /\ trades # Take(ValueImprovementCandidates(my_roster, opponent_roster,
                                                 player_values, max_players), 20)
    /\ \E i, j \in TradeIndices :
         /\ i < j
         /\ trades[i].net_value = trades[j].net_value
         /\ Len(trades[i].you_give_ids) < Len(trades[j].you_give_ids)

====
